---- MODULE Spec2Model ----
(***************************************************************************)
(* WhisperNote: alignment of a word-level transcript with a speaker-turn   *)
(* timeline and construction of the subtitle documents.                    *)
(*                                                                         *)
(* Strings are sequences of one-character strings, so that strip(), split  *)
(* and text[-1] are computed as Python computes them.  SubtitleElement     *)
(* objects live on a heap (object identity matters for copy.deepcopy);     *)
(* a Subtitles document holds a list of references into the heap.          *)
(*                                                                         *)
(* Specifications:                                                         *)
(*   Spec          one call of subtitle.generate_diarized_subtitles        *)
(*   SpecDoc       a client of the Subtitles class (add_element,           *)
(*                 join_adjacent_elements, to_file)                        *)
(*   SpecDocFair   the same client, its loops running on                   *)
(*   SpecTimes     such a client choosing the times of its intervals       *)
(*   SpecParse     generate_diarized_subtitles on input files of any shape *)
(*   SpecRun       one run of main / run_whispernote_parallel with its     *)
(*                 transcription and diarization jobs                      *)
(*   SpecTimecode  calls of SubtitleElement.ms_to_HMSms                    *)
(*   SpecSeconds   the conversions of the times of a word and of a speaker *)
(*                 turn from seconds to milliseconds                       *)
(***************************************************************************)
EXTENDS Integers, Sequences, FiniteSets, TLC

VARIABLES
    pc,                 \* position in the running function
    transcript_df,      \* local of construct_diarised_subtitles: rows start,end,text,speaker
    diarization_df,     \* local of combine_transcript_diarization: rows start,end,speaker
    heap,               \* the SubtitleElement objects, by reference
    docs,               \* the Subtitles objects: subtitles, subtitles_srt, subtitles_transcribeMe
    target,             \* the Subtitles object join_adjacent_elements is running on (self)
    idx,                \* local idx of join_adjacent_elements
    max_words_per_line, \* parameter max_words_per_line
    files,              \* contents of the srt and transcribeMe output files
    attributed,         \* history: the intervals handed to add_element, in order
    error,              \* the exception that ended the run, "" if none
    inputs,             \* the transcript and diarization files as they are on disk
    run,                \* whispernote.py / __init__.py: the orchestration of one run
    timecode,           \* the last call of SubtitleElement.ms_to_HMSms: ms, delim, result
    seconds             \* the last interval converted from seconds to ms, and by whom

vars == <<pc, transcript_df, diarization_df, heap, docs, target, idx,
          max_words_per_line, files, attributed, error, inputs, run, timecode,
          seconds>>

(***************************************************************************)
(* Bounds of the model                                                     *)
(***************************************************************************)
MaxWords == 3
MaxTurns == 2
MaxElements == 3
MaxWordsPerLine == 3

(***************************************************************************)
(* Python strings                                                          *)
(***************************************************************************)
stop_characters == {".", "?", "!"}

RECURSIVE lstrip(_)
lstrip(t) == IF t # <<>> /\ Head(t) = " " THEN lstrip(Tail(t)) ELSE t

RECURSIVE rstrip(_)
rstrip(t) == IF t # <<>> /\ t[Len(t)] = " " THEN rstrip(SubSeq(t, 1, Len(t) - 1)) ELSE t

\* str.strip()
strip(t) == rstrip(lstrip(t))

\* len(text.split(" ")): one more than the number of single spaces
split_len(t) == Cardinality({i \in 1..Len(t) : t[i] = " "}) + 1

\* " ".join(texts)
RECURSIVE join(_)
join(ts) ==
    IF ts = <<>> THEN <<>>
    ELSE IF Len(ts) = 1 THEN ts[1]
    ELSE ts[1] \o <<" ">> \o join(Tail(ts))

Digits == <<"0", "1", "2", "3", "4", "5", "6", "7", "8", "9">>

\* str(n) for an integer n >= 0
RECURSIVE str_int(_)
str_int(n) == IF n < 10 THEN <<Digits[n + 1]>> ELSE str_int(n \div 10) \o <<Digits[(n % 10) + 1]>>

\* f"{n:0<w>d}": zero-padded to at least w digits
RECURSIVE zero_pad(_, _)
zero_pad(t, w) == IF Len(t) < w THEN zero_pad(<<"0">> \o t, w) ELSE t

(***************************************************************************)
(* Python floats (IEEE 754 doubles).  A positive float is m * 2^e with m a *)
(* string of 53 bits, most significant first; an operation gives the       *)
(* float nearest to its exact result, ties to the even one.  Numbers       *)
(* longer than a machine integer are strings of bits, cut into pieces of   *)
(* ten bits for the arithmetic.                                            *)
(***************************************************************************)
Min(S) == CHOOSE x \in S : \A y \in S : x <= y
Max(S) == CHOOSE x \in S : \A y \in S : x >= y

\* the w bits of n, most significant first
bits(n, w) == [i \in 1..w |-> (n \div 2^(w - i)) % 2]

\* the number ten bits or fewer stand for
RECURSIVE int_of_bits(_)
int_of_bits(b) ==
    IF b = <<>> THEN 0 ELSE 2 * int_of_bits(SubSeq(b, 1, Len(b) - 1)) + b[Len(b)]

\* the number thirty bits or fewer stand for
bits_value(b) ==
    LET p == [i \in 1..30 |-> IF i <= 30 - Len(b) THEN 0 ELSE b[i - (30 - Len(b))]]
    IN  (int_of_bits(SubSeq(p, 1, 10)) * 1024 + int_of_bits(SubSeq(p, 11, 20))) * 1024
        + int_of_bits(SubSeq(p, 21, 30))

\* the float nearest to B * 2^w (and a little more if sticky), B a string of
\* bits with 54 bits or more from its first 1: the 53 bits from the first 1,
\* plus one if the rest is more than half a unit, or is half a unit and the
\* 53rd bit is 1
round_float(B, w, sticky) ==
    LET f == Min({i \in 1..Len(B) : B[i] = 1})
        m == SubSeq(B, f, f + 52)
        rest == sticky \/ \E i \in (f + 54)..Len(B) : B[i] = 1
        up == B[f + 53] = 1 /\ (rest \/ m[53] = 1)
        e == w + Len(B) - (f + 52)
    IN  IF ~up THEN [m |-> m, e |-> e]
        ELSE IF \A i \in 1..53 : m[i] = 1
        THEN [m |-> [i \in 1..53 |-> IF i = 1 THEN 1 ELSE 0], e |-> e + 1]
        ELSE LET z == Max({i \in 1..53 : m[i] = 0})
             IN  [m |-> [i \in 1..53 |-> IF i < z THEN m[i] ELSE IF i = z THEN 1 ELSE 0],
                  e |-> e]

\* ten more bits of the long division by d after the remainder r
chunk(r, d) == [q |-> (r * 1024) \div d, r |-> (r * 1024) % d]

\* the float a decimal literal n / d is read as (json.loads), for 0 < n and
\* d up to a million: the quotient to 80 bits after the point, rounded
float_of(n, d) ==
    LET c1 == chunk(n % d, d)
        c2 == chunk(c1.r, d)
        c3 == chunk(c2.r, d)
        c4 == chunk(c3.r, d)
        c5 == chunk(c4.r, d)
        c6 == chunk(c5.r, d)
        c7 == chunk(c6.r, d)
        c8 == chunk(c7.r, d)
    IN  round_float(bits(n \div d, 30) \o bits(c1.q, 10) \o bits(c2.q, 10) \o bits(c3.q, 10)
                    \o bits(c4.q, 10) \o bits(c5.q, 10) \o bits(c6.q, 10) \o bits(c7.q, 10)
                    \o bits(c8.q, 10), -80, c8.r # 0)

\* x * c for a float x and an integer c from 2 to 1024
float_times(x, c) ==
    LET b == <<0, 0, 0, 0, 0, 0, 0>> \o x.m
        piece(i) == int_of_bits(SubSeq(b, 10 * i - 9, 10 * i))
        p6 == piece(6) * c
        p5 == piece(5) * c + p6 \div 1024
        p4 == piece(4) * c + p5 \div 1024
        p3 == piece(3) * c + p4 \div 1024
        p2 == piece(2) * c + p3 \div 1024
        p1 == piece(1) * c + p2 \div 1024
    IN  round_float(bits(p1 \div 1024, 10) \o bits(p1 % 1024, 10) \o bits(p2 % 1024, 10)
                    \o bits(p3 % 1024, 10) \o bits(p4 % 1024, 10) \o bits(p5 % 1024, 10)
                    \o bits(p6 % 1024, 10), x.e, FALSE)

\* int(x) for a float x below 2^30: the fraction is cut off
int_float(x) == IF 53 + x.e <= 0 THEN 0 ELSE bits_value(SubSeq(x.m, 1, 53 + x.e))

(***************************************************************************)
(* Speakers.  A speaker is a label; float("NaN") is the missing value of   *)
(* the speaker column, and NaN == NaN is False in Python.                  *)
(***************************************************************************)
NaN == "nan"
Speakers == {"A", "B"}

\* the speaker of a diarization row that pandas padded with None
NoSpeaker == "None"

speaker_eq(a, b) == a # NaN /\ b # NaN /\ a = b

\* pd.isna: NaN and None are missing values
isna(v) == v = NaN \/ v = NoSpeaker

(***************************************************************************)
(* subtitle.py: the transcript and the diarization as data frames          *)
(***************************************************************************)
\* process_whisper_transcript: seconds to integer milliseconds, int(start * 1000).
\* Word times are given in microseconds.
int_times_1000(us) ==
    IF us = 0 THEN 0 ELSE int_float(float_times(float_of(us, 1000000), 1000))

\* the conversions of the times of the words of Whisper, computed once
word_times_ms == { <<us, int_times_1000(us)>> : us \in {i * 1000 + 400 : i \in 0..MaxWords} }

to_ms(us) ==
    IF \E p \in word_times_ms : p[1] = us
    THEN (CHOOSE p \in word_times_ms : p[1] = us)[2]
    ELSE int_times_1000(us)

\* get_transcript_df: the number of fields of each line of the text that
\* process_whisper_transcript returns, after .strip().split("\n") and
\* line.split(",", maxsplit=2).  Without any word the text is "", and
\* "".split("\n") is one line of one (empty) field.
transcript_fields(words) ==
    IF words = <<>> THEN <<1>> ELSE [i \in 1..Len(words) |-> 3]

\* pd.DataFrame(data, columns=[...]) raises ValueError unless the widest row of
\* data has as many fields as there are columns (shorter rows are padded with None)
DataFrame_raises(fields, columns) ==
    /\ fields # <<>>
    /\ \E i \in 1..Len(fields) :
          /\ \A j \in 1..Len(fields) : fields[j] <= fields[i]
          /\ fields[i] # columns

\* get_transcript_df: one row per word, text stripped
RECURSIVE get_transcript_df(_)
get_transcript_df(words) ==
    IF words = <<>> THEN <<>>
    ELSE << [start |-> to_ms(Head(words).start), end |-> to_ms(Head(words).end),
             text |-> strip(Head(words).word)] >>
         \o get_transcript_df(Tail(words))

\* the group key rising at every row but the first
after_stop_every(df, i) == i > 1

\* df["text"].shift().str[-1].isin(stop_characters): the previous row's text
\* ends with a stop character (False for the first row and after an empty text)
after_stop(df, i) ==
    /\ i > 1
    /\ df[i - 1].text # <<>>
    /\ df[i - 1].text[Len(df[i - 1].text)] \in stop_characters

\* the cumsum() group key of row i
group_key(df, i) == Cardinality({j \in 1..i : after_stop(df, j)})

\* merge_transcript_json followed by transcript_json_to_df: one row per group
merge_transcript_json(words) ==
    LET df == get_transcript_df(words)
        keys == {group_key(df, i) : i \in 1..Len(df)}
        rows(k) == {i \in 1..Len(df) : group_key(df, i) = k}
        texts(k) == [n \in 1..Cardinality(rows(k)) |-> df[Min(rows(k)) + n - 1].text]
    IN  [g \in 1..Cardinality(keys) |->
            [start |-> Min({df[i].start : i \in rows(g - 1)}),
             end |-> Max({df[i].end : i \in rows(g - 1)}),
             text |-> strip(join(texts(g - 1)))]]

\* the mask with the end compared strictly
mask_strict_end(row, line) == row.start >= line.start /\ row.end < line.end

\* the .loc mask of combine_transcript_diarization
mask(row, line) == row.start >= line.start /\ row.end <= line.end

\* the loop over diarization_df.iterrows(): every row under the mask takes the
\* line's speaker, later lines overwriting earlier ones
RECURSIVE assign_speakers(_, _)
assign_speakers(df, lines) ==
    IF lines = <<>> THEN df
    ELSE assign_speakers(
            [i \in 1..Len(df) |->
                IF mask(df[i], Head(lines))
                THEN [df[i] EXCEPT !.speaker = Head(lines).speaker]
                ELSE df[i]],
            Tail(lines))

\* transcript_df["speaker"] = ""
add_speaker_column(df) ==
    [i \in 1..Len(df) |->
        [start |-> df[i].start, end |-> df[i].end, text |-> df[i].text, speaker |-> ""]]

combine_transcript_diarization(words, lines) ==
    assign_speakers(add_speaker_column(merge_transcript_json(words)), lines)

\* df["speaker"].replace("", NaN)
replace_empty(col) == [i \in 1..Len(col) |-> IF col[i] = "" THEN NaN ELSE col[i]]

\* Series.ffill(): a missing value takes the last value before it that is not missing
ffill(col) ==
    [i \in 1..Len(col) |->
        IF ~isna(col[i]) \/ \A j \in 1..i : isna(col[j]) THEN col[i]
        ELSE col[Max({j \in 1..i : ~isna(col[j])})]]

\* Series.bfill(): a missing value takes the first value after it that is not missing
bfill(col) ==
    [i \in 1..Len(col) |->
        IF ~isna(col[i]) \/ \A j \in i..Len(col) : isna(col[j]) THEN col[i]
        ELSE col[Min({j \in i..Len(col) : ~isna(col[j])})]]

process_combined_transcript_diarization(df) ==
    LET filled == bfill(ffill(replace_empty([i \in 1..Len(df) |-> df[i].speaker])))
    IN  [i \in 1..Len(df) |-> [df[i] EXCEPT !.speaker = filled[i]]]

(***************************************************************************)
(* subtitle.py: the two input files as they are read.  A transcript is a   *)
(* JSON object: the keys it has, and its segments; a segment and a word    *)
(* likewise, with numeric FALSE when start and end are null.  A            *)
(* diarization file is its lines, each a list of comma-separated fields.   *)
(***************************************************************************)
is_digit(c) == \E d \in 1..10 : Digits[d] = c
digit(c) == (CHOOSE d \in 1..10 : Digits[d] = c) - 1

\* int(text) succeeds on a string of digits
is_int(t) == t # <<>> /\ \A i \in 1..Len(t) : is_digit(t[i])

RECURSIVE int(_)
int(t) ==
    IF Len(t) = 1 THEN digit(t[1])
    ELSE 10 * int(SubSeq(t, 1, Len(t) - 1)) + digit(t[Len(t)])

\* the exception of the inner loop of process_whisper_transcript on one word
word_error(word) ==
    IF ~({"start", "end", "word"} \subseteq word.keys) THEN "KeyError"
    ELSE IF ~word.numeric THEN "TypeError"
    ELSE ""

\* the exception of the outer loop on one segment
segment_error(segment) ==
    IF ~({"start", "end", "text"} \subseteq segment.keys) THEN "KeyError"
    ELSE IF ~segment.numeric THEN "TypeError"
    ELSE IF "words" \notin segment.keys THEN "KeyError"
    ELSE IF \E i \in 1..Len(segment.words) : word_error(segment.words[i]) # ""
    THEN word_error(segment.words[
             Min({i \in 1..Len(segment.words) : word_error(segment.words[i]) # ""})])
    ELSE ""

\* the exception process_whisper_transcript ends with, "" if it returns
process_whisper_transcript_error(transcript) ==
    IF "segments" \notin transcript.keys THEN "KeyError"
    ELSE IF \E i \in 1..Len(transcript.segments) : segment_error(transcript.segments[i]) # ""
    THEN segment_error(transcript.segments[
             Min({i \in 1..Len(transcript.segments) :
                     segment_error(transcript.segments[i]) # ""})])
    ELSE ""

\* process_whisper_transcript: the words of all segments, in order
RECURSIVE process_whisper_transcript(_)
process_whisper_transcript(segments) ==
    IF segments = <<>> THEN <<>>
    ELSE [i \in 1..Len(Head(segments).words) |->
             [start |-> Head(segments).words[i].start, end |-> Head(segments).words[i].end,
              word |-> Head(segments).words[i].word]]
         \o process_whisper_transcript(Tail(segments))

\* get_diarization_df with the first line always taken for a header
diarization_data_first_dropped(lines) == Tail(lines)

\* get_diarization_df: a first line whose first field is "start" is a header
diarization_data(lines) ==
    IF lines[1][1] = <<"s", "t", "a", "r", "t">> THEN Tail(lines) ELSE lines

\* the exception get_diarization_df ends with, "" if it returns: the frame has
\* three columns, then start and end are converted with astype(int)
get_diarization_df_error(lines) ==
    LET data == diarization_data(lines)
    IN  IF DataFrame_raises([i \in 1..Len(data) |-> Len(data[i])], 3) THEN "ValueError"
        ELSE IF \E i \in 1..Len(data) : ~is_int(data[i][1]) THEN "ValueError"
        ELSE IF \E i \in 1..Len(data) : Len(data[i]) < 2 THEN "TypeError"
        ELSE IF \E i \in 1..Len(data) : ~is_int(data[i][2]) THEN "ValueError"
        ELSE ""

\* get_diarization_df: a row shorter than three fields has speaker None
get_diarization_df(lines) ==
    LET data == diarization_data(lines)
    IN  [i \in 1..Len(data) |->
            [start |-> int(data[i][1]), end |-> int(data[i][2]),
             speaker |-> IF Len(data[i]) < 3 THEN NoSpeaker ELSE data[i][3][1]]]

(***************************************************************************)
(* models/SubtitleElement.py                                               *)
(***************************************************************************)
\* index: Optional[int] = None
None == -1

\* SubtitleElement.__init__
SubtitleElement(start_ms, end_ms, text, speaker) ==
    [index |-> None, start_ms |-> start_ms, end_ms |-> end_ms, text |-> strip(text),
     speaker |-> speaker, display_mode |-> "srt"]

\* ms_to_HMSms with the minutes not reduced modulo the hour
ms_to_HMSms_all_minutes(ms, delim) ==
    LET s == ms \div 1000
        h == s \div 3600
        m == s \div 60
        sec == s % 60
        mil == ms % 1000
    IN  zero_pad(str_int(h), 2) \o <<":">> \o zero_pad(str_int(m), 2) \o <<":">>
        \o zero_pad(str_int(sec), 2) \o <<delim>> \o zero_pad(str_int(mil), 3)

\* ms_to_HMSms: HH:MM:SS<delim>MIL
ms_to_HMSms(ms, delim) ==
    LET s == ms \div 1000
        h == s \div 3600
        m == (s % 3600) \div 60
        sec == s % 60
        mil == ms % 1000
    IN  zero_pad(str_int(h), 2) \o <<":">> \o zero_pad(str_int(m), 2) \o <<":">>
        \o zero_pad(str_int(sec), 2) \o <<delim>> \o zero_pad(str_int(mil), 3)

\* str(speaker): a label prints as itself, the missing value as nan
str_speaker(speaker) ==
    IF speaker = NaN THEN <<"n", "a", "n">>
    ELSE IF speaker = NoSpeaker THEN <<"N", "o", "n", "e">>
    ELSE <<speaker>>

\* srt_string: the rows of the string, each ended by a line break
srt_string(e) ==
    << str_int(e.index),
       ms_to_HMSms(e.start_ms, ",") \o <<" ", "-", "-", ">", " ">> \o ms_to_HMSms(e.end_ms, ","),
       <<"[">> \o str_speaker(e.speaker) \o <<"]">>,
       strip(e.text) >>

\* transcript_string
transcript_string(e) ==
    << str_speaker(e.speaker) \o <<" ">> \o ms_to_HMSms(e.start_ms, ".") \o <<" ">>
       \o strip(e.text) >>

\* SubtitleElement.__str__
str_element(e) ==
    IF e.display_mode = "transcribeMe" THEN transcript_string(e) ELSE srt_string(e)

(***************************************************************************)
(* models/Subtitles.py                                                     *)
(***************************************************************************)
\* Subtitles.__init__
Subtitles == [index |-> 0, elements |-> <<>>, display_mode |-> "srt"]

\* a name not bound to a Subtitles object yet
Unbound == [index |-> 0, elements |-> <<>>, display_mode |-> "unbound"]

\* add_element: the heap and the document after adding a new element object
add_element(h, doc, element) ==
    [heap |-> Append(h, [element EXCEPT !.index = doc.index]),
     doc |-> [doc EXCEPT !.index = @ + 1, !.elements = Append(@, Len(h) + 1)]]

\* the display_mode setter: the document's mode and every element's
set_display_mode(h, doc, value) ==
    [heap |-> [r \in 1..Len(h) |->
                 IF \E k \in 1..Len(doc.elements) : doc.elements[k] = r
                 THEN [h[r] EXCEPT !.display_mode = value] ELSE h[r]],
     doc |-> [doc EXCEPT !.display_mode = value]]

\* the list as it is: nothing is removed
remove_nothing(list, x) == list

\* the list without its first element, whatever x is
remove_head(list, x) == Tail(list)

\* list.remove(x): without the first occurrence of x
remove(list, x) ==
    LET at == Min({k \in 1..Len(list) : list[k] = x})
    IN  SubSeq(list, 1, at - 1) \o SubSeq(list, at + 1, Len(list))

\* the condition of join_adjacent_elements, text[-1] of an empty text raising
raises_IndexError(element, next_element) ==
    speaker_eq(element.speaker, next_element.speaker) /\ element.text = <<>>

\* the condition with the word count compared by <=
can_join_at_limit(element, next_element, maxw) ==
    /\ speaker_eq(element.speaker, next_element.speaker)
    /\ element.text[Len(element.text)] \notin stop_characters
    /\ split_len(element.text) <= maxw

\* the condition without the comparison of the speakers
can_join_any_speaker(element, next_element, maxw) ==
    /\ element.text # <<>>
    /\ element.text[Len(element.text)] \notin stop_characters
    /\ split_len(element.text) < maxw

can_join(element, next_element, maxw) ==
    /\ speaker_eq(element.speaker, next_element.speaker)
    /\ element.text[Len(element.text)] \notin stop_characters
    /\ split_len(element.text) < maxw

\* the merge branch with end_ms taken from next_element's start
merge_end_at_start(h, doc, i) ==
    LET ref == doc.elements[i + 1]
        next_ref == doc.elements[i + 2]
    IN  [heap |-> [h EXCEPT ![ref].text = strip(h[ref].text) \o <<" ">> \o strip(h[next_ref].text),
                            ![ref].end_ms = h[next_ref].start_ms],
         doc |-> [doc EXCEPT !.elements = remove(@, next_ref)]]

\* the merge branch with start_ms moved to next_element's start
merge_start_at_next(h, doc, i) ==
    LET ref == doc.elements[i + 1]
        next_ref == doc.elements[i + 2]
    IN  [heap |-> [h EXCEPT ![ref].text = strip(h[ref].text) \o <<" ">> \o strip(h[next_ref].text),
                            ![ref].end_ms = h[next_ref].end_ms,
                            ![ref].start_ms = h[next_ref].start_ms],
         doc |-> [doc EXCEPT !.elements = remove(@, next_ref)]]

\* the merge branch with next_element's text left out
merge_without_text(h, doc, i) ==
    LET ref == doc.elements[i + 1]
        next_ref == doc.elements[i + 2]
    IN  [heap |-> [h EXCEPT ![ref].end_ms = h[next_ref].end_ms],
         doc |-> [doc EXCEPT !.elements = remove(@, next_ref)]]

\* the merge branch: element's text and end_ms change, next_element leaves the list
merge(h, doc, i) ==
    LET ref == doc.elements[i + 1]
        next_ref == doc.elements[i + 2]
    IN  [heap |-> [h EXCEPT ![ref].text = strip(h[ref].text) \o <<" ">> \o strip(h[next_ref].text),
                            ![ref].end_ms = h[next_ref].end_ms],
         doc |-> [doc EXCEPT !.elements = remove(@, next_ref)]]

\* the while loop of join_adjacent_elements from idx = i to its end: the heap and
\* the document it leaves, the idx it ends with and the exception it raises
RECURSIVE join_loop(_, _, _, _)
join_loop(h, doc, i, maxw) ==
    IF ~(i < Len(doc.elements) - 1)
    THEN [heap |-> h, doc |-> doc, idx |-> i, error |-> ""]
    ELSE LET element == h[doc.elements[i + 1]]
             next_element == h[doc.elements[i + 2]]
         IN  IF raises_IndexError(element, next_element)
             THEN [heap |-> h, doc |-> doc, idx |-> i, error |-> "IndexError"]
             ELSE IF can_join(element, next_element, maxw)
             THEN join_loop(merge(h, doc, i).heap, merge(h, doc, i).doc, i, maxw)
             ELSE join_loop(h, doc, i + 1, maxw)

\* one whole call of join_adjacent_elements(max_words_per_line)
join_adjacent_elements(h, doc, maxw) == join_loop(h, doc, 0, maxw)

\* Subtitles.__str__ without the line break after an element's string
str_subtitles_no_break(h, doc) ==
    LET RECURSIVE rows(_)
        rows(k) == IF k > Len(doc.elements) THEN <<>>
                   ELSE str_element(h[doc.elements[k]]) \o rows(k + 1)
    IN  rows(1)

\* Subtitles.__str__: every element's string and a line break
str_subtitles(h, doc) ==
    LET RECURSIVE rows(_)
        rows(k) == IF k > Len(doc.elements) THEN <<>>
                   ELSE str_element(h[doc.elements[k]]) \o << <<>> >> \o rows(k + 1)
    IN  rows(1)

\* to_file: the elements take the document's display mode, then the file is written
to_file(h, doc) ==
    IF doc.display_mode \in {"srt", "transcribeMe"}
    THEN set_display_mode(h, doc, doc.display_mode).heap
    ELSE h

\* copy.copy(doc) with a new list: the element objects are shared
shallow_copy(h, doc) == [heap |-> h, doc |-> doc]

\* copy.deepcopy(doc): new element objects with the same fields
deepcopy(h, doc) ==
    [heap |-> h \o [k \in 1..Len(doc.elements) |-> h[doc.elements[k]]],
     doc |-> [doc EXCEPT !.elements = [k \in 1..Len(doc.elements) |-> Len(h) + k]]]

(***************************************************************************)
(* Inputs                                                                  *)
(***************************************************************************)
\* max_words_per_line: int = 7
DefaultMaxWordsPerLine == 7

\* Whisper words: a word with its leading space, a word ending a sentence,
\* a word that is only whitespace
WordTexts == { <<" ", "a">>, <<"b", ".">>, <<" ", " ", " ">> }

\* word i of a transcript is spoken from (i-1) s/1000 to i s/1000, plus 0.4 ms
word_at(i, text) == [start |-> (i - 1) * 1000 + 400, end |-> i * 1000 + 400, word |-> text]

\* the words of all segments of a transcript, in order; none when "segments" is
\* empty or every segment's "words" is empty
WordInputs ==
    UNION { { [i \in 1..n |-> word_at(i, texts[i])] : texts \in [1..n -> WordTexts] }
            : n \in 0..MaxWords }

\* speaker turns on the same timeline, in milliseconds, ordered by start
Turns == { [start |-> s, end |-> e, speaker |-> sp] :
             s \in 0..MaxWords, e \in 0..MaxWords, sp \in Speakers }

DiarizationInputs ==
    { lines \in UNION { [1..n -> {t \in Turns : t.start < t.end}] : n \in 1..MaxTurns } :
        \A i \in 1..(Len(lines) - 1) : lines[i].start <= lines[i + 1].start }

\* the texts a client of Subtitles passes to SubtitleElement
ElementTexts == { <<"a">>, <<"b", " ", "c">>, <<"d", ".">>, <<>> }

NoFile == [written |-> FALSE, rows |-> <<>>]

\* the input files are not looked at before they are read
NoInputs == [transcript |-> [keys |-> {}, segments |-> <<>>], diarization |-> <<>>]

\* no orchestration is running, ms_to_HMSms has not been called, no time converted
NoRun == [mode |-> "none"]
NoTimecode == [ms |-> 0, delim |-> ",", text |-> <<>>]
NoSeconds == [by |-> "none"]

(***************************************************************************)
(* subtitle.py: generate_diarized_subtitles                                *)
(***************************************************************************)
Init ==
    /\ pc = "start"
    /\ transcript_df = <<>>
    /\ diarization_df = <<>>
    /\ heap = <<>>
    /\ docs = [subtitles |-> Unbound, subtitles_srt |-> Unbound,
               subtitles_transcribeMe |-> Unbound]
    /\ target = "subtitles"
    /\ idx = 0
    /\ max_words_per_line = DefaultMaxWordsPerLine
    /\ files = [srt |-> NoFile, transcribeMe |-> NoFile]
    /\ attributed = <<>>
    /\ error = ""
    /\ inputs = NoInputs
    /\ run = NoRun
    /\ timecode = NoTimecode
    /\ seconds = NoSeconds

\* construct_diarised_subtitles, first call: the two inputs are read and combined
CombineTranscriptDiarization ==
    /\ pc = "start"
    /\ \E words \in WordInputs :
          IF DataFrame_raises(transcript_fields(words), 3)
          THEN /\ error' = "ValueError"
               /\ pc' = "raised"
               /\ UNCHANGED <<transcript_df, diarization_df>>
          ELSE LET transcript == add_speaker_column(merge_transcript_json(words))
               IN  \E lines \in DiarizationInputs :
                      /\ transcript_df' = assign_speakers(transcript, lines)
                      /\ diarization_df' = lines
                      /\ pc' = "combined"
                      /\ UNCHANGED error
    /\ UNCHANGED <<inputs, run, timecode, seconds>>
    /\ UNCHANGED <<heap, docs, target, idx, max_words_per_line, files, attributed>>

\* construct_diarised_subtitles, second call: the fill-forward / fill-backward pass
ProcessCombined ==
    /\ pc = "combined"
    /\ transcript_df' = process_combined_transcript_diarization(transcript_df)
    /\ pc' = "processed"
    /\ UNCHANGED <<inputs, run, timecode, seconds>>
    /\ UNCHANGED <<diarization_df, heap, docs, target, idx, max_words_per_line, files,
                   attributed, error>>

\* the loop of construct_diarised_subtitles: one SubtitleElement per row
RECURSIVE add_rows(_, _, _)
add_rows(h, doc, rows) ==
    IF rows = <<>> THEN [heap |-> h, doc |-> doc]
    ELSE LET r == Head(rows)
             added == add_element(h, doc,
                          SubtitleElement(r.start, r.end, r.text, r.speaker))
         IN  add_rows(added.heap, added.doc, Tail(rows))

interval(e) == [start_ms |-> e.start_ms, end_ms |-> e.end_ms, text |-> e.text,
                speaker |-> e.speaker]

\* construct_diarised_subtitles returns the document; its data frames go out of scope
ConstructSubtitles ==
    /\ pc = "processed"
    /\ LET built == add_rows(heap, Subtitles, transcript_df)
       IN  /\ heap' = built.heap
           /\ docs' = [docs EXCEPT !.subtitles = built.doc]
           /\ attributed' = [k \in 1..Len(built.doc.elements) |->
                                interval(built.heap[built.doc.elements[k]])]
    /\ transcript_df' = <<>>
    /\ diarization_df' = <<>>
    /\ pc' = "constructed"
    /\ UNCHANGED <<inputs, run, timecode, seconds>>
    /\ UNCHANGED <<target, idx, max_words_per_line, files, error>>

\* subtitles_srt = copy.deepcopy(subtitles); join_adjacent_elements is entered
\* with the caller's max_words_per_line
CopySrt ==
    /\ pc = "constructed"
    /\ \E maxw \in 1..MaxWordsPerLine : max_words_per_line' = maxw
    /\ LET copied == deepcopy(heap, docs.subtitles)
       IN  /\ heap' = copied.heap
           /\ docs' = [docs EXCEPT !.subtitles_srt = copied.doc]
    /\ target' = "subtitles_srt"
    /\ idx' = 0
    /\ pc' = "join"
    /\ UNCHANGED <<inputs, run, timecode, seconds>>
    /\ UNCHANGED <<transcript_df, diarization_df, files, attributed, error>>

\* the loop condition of join_adjacent_elements
in_loop == idx < Len(docs[target].elements) - 1

\* one iteration of the while loop of join_adjacent_elements
JoinStep ==
    /\ pc = "join"
    /\ in_loop
    /\ LET element == heap[docs[target].elements[idx + 1]]
           next_element == heap[docs[target].elements[idx + 2]]
       IN  IF raises_IndexError(element, next_element)
           THEN /\ error' = "IndexError"
                /\ pc' = "raised"
                /\ UNCHANGED <<heap, docs, idx>>
           ELSE IF can_join(element, next_element, max_words_per_line)
           THEN /\ heap' = merge(heap, docs[target], idx).heap
                /\ docs' = [docs EXCEPT ![target] = merge(heap, docs[target], idx).doc]
                /\ UNCHANGED <<pc, idx, error>>
           ELSE /\ idx' = idx + 1
                /\ UNCHANGED <<pc, heap, docs, error>>
    /\ UNCHANGED <<inputs, run, timecode, seconds>>
    /\ UNCHANGED <<transcript_df, diarization_df, target, max_words_per_line, files,
                   attributed>>

\* the file to_file writes
written(h, doc) == [written |-> TRUE, rows |-> str_subtitles(to_file(h, doc), doc)]

\* the srt pass ends: subtitles_srt.to_file(srt_path)
WriteSrt ==
    /\ pc = "join"
    /\ target = "subtitles_srt"
    /\ ~in_loop
    /\ heap' = to_file(heap, docs.subtitles_srt)
    /\ files' = [files EXCEPT !.srt = written(heap, docs.subtitles_srt)]
    /\ pc' = "srt_written"
    /\ UNCHANGED <<inputs, run, timecode, seconds>>
    /\ UNCHANGED <<transcript_df, diarization_df, docs, target, idx, max_words_per_line,
                   attributed, error>>

\* transcribeMe_path is None: return [srt_path]
ReturnSrt ==
    /\ pc = "srt_written"
    /\ pc' = "done"
    /\ UNCHANGED <<inputs, run, timecode, seconds>>
    /\ UNCHANGED <<transcript_df, diarization_df, heap, docs, target, idx,
                   max_words_per_line, files, attributed, error>>

\* subtitles_transcribeMe = copy.deepcopy(subtitles)
CopyTranscribeMe ==
    /\ pc = "srt_written"
    /\ LET copied == deepcopy(heap, docs.subtitles)
       IN  /\ heap' = copied.heap
           /\ docs' = [docs EXCEPT !.subtitles_transcribeMe = copied.doc]
    /\ pc' = "transcribeMe_copied"
    /\ UNCHANGED <<inputs, run, timecode, seconds>>
    /\ UNCHANGED <<transcript_df, diarization_df, target, idx, max_words_per_line, files,
                   attributed, error>>

\* subtitles_transcribeMe.display_mode = "transcribeMe"; join_adjacent_elements is entered
SetDisplayMode ==
    /\ pc = "transcribeMe_copied"
    /\ LET set == set_display_mode(heap, docs.subtitles_transcribeMe, "transcribeMe")
       IN  /\ heap' = set.heap
           /\ docs' = [docs EXCEPT !.subtitles_transcribeMe = set.doc]
    /\ target' = "subtitles_transcribeMe"
    /\ idx' = 0
    /\ pc' = "join"
    /\ UNCHANGED <<inputs, run, timecode, seconds>>
    /\ UNCHANGED <<transcript_df, diarization_df, max_words_per_line, files, attributed,
                   error>>

\* the transcribeMe pass ends: subtitles_transcribeMe.to_file(transcribeMe_path)
WriteTranscribeMe ==
    /\ pc = "join"
    /\ target = "subtitles_transcribeMe"
    /\ ~in_loop
    /\ heap' = to_file(heap, docs.subtitles_transcribeMe)
    /\ files' = [files EXCEPT !.transcribeMe = written(heap, docs.subtitles_transcribeMe)]
    /\ pc' = "done"
    /\ UNCHANGED <<inputs, run, timecode, seconds>>
    /\ UNCHANGED <<transcript_df, diarization_df, docs, target, idx, max_words_per_line,
                   attributed, error>>

Next ==
    \/ CombineTranscriptDiarization
    \/ ProcessCombined
    \/ ConstructSubtitles
    \/ CopySrt
    \/ JoinStep
    \/ WriteSrt
    \/ ReturnSrt
    \/ CopyTranscribeMe
    \/ SetDisplayMode
    \/ WriteTranscribeMe

Spec == Init /\ [][Next]_vars

(***************************************************************************)
(* A client of models/Subtitles.py                                         *)
(***************************************************************************)
DocInit ==
    /\ pc = "client"
    /\ transcript_df = <<>>
    /\ diarization_df = <<>>
    /\ heap = <<>>
    /\ docs = [subtitles |-> Subtitles, subtitles_srt |-> Unbound,
               subtitles_transcribeMe |-> Unbound]
    /\ target = "subtitles"
    /\ idx = 0
    /\ max_words_per_line = DefaultMaxWordsPerLine
    /\ files = [srt |-> NoFile, transcribeMe |-> NoFile]
    /\ attributed = <<>>
    /\ error = ""
    /\ inputs = NoInputs
    /\ run = NoRun
    /\ timecode = NoTimecode
    /\ seconds = NoSeconds

\* subtitles.add_element(SubtitleElement(...)): the n-th interval lasts from n to n+1 ms
DocAddElement ==
    /\ pc = "client"
    /\ Len(attributed) < MaxElements
    /\ \E text \in ElementTexts, speaker \in Speakers :
          LET n == Len(attributed)
              element == SubtitleElement(n, n + 1, text, speaker)
              added == add_element(heap, docs.subtitles, element)
          IN  /\ heap' = added.heap
              /\ docs' = [docs EXCEPT !.subtitles = added.doc]
              /\ attributed' = Append(attributed, interval(element))
    /\ UNCHANGED <<inputs, run, timecode, seconds>>
    /\ UNCHANGED <<pc, transcript_df, diarization_df, target, idx, max_words_per_line,
                   files, error>>

\* subtitles.join_adjacent_elements(max_words_per_line) is called
DocJoin ==
    /\ pc = "client"
    /\ \E maxw \in 1..MaxWordsPerLine : max_words_per_line' = maxw
    /\ target' = "subtitles"
    /\ idx' = 0
    /\ pc' = "join"
    /\ UNCHANGED <<inputs, run, timecode, seconds>>
    /\ UNCHANGED <<transcript_df, diarization_df, heap, docs, files, attributed, error>>

\* join_adjacent_elements returns; its locals go out of scope
DocJoinReturn ==
    /\ pc = "join"
    /\ ~in_loop
    /\ idx' = 0
    /\ max_words_per_line' = DefaultMaxWordsPerLine
    /\ pc' = "client"
    /\ UNCHANGED <<inputs, run, timecode, seconds>>
    /\ UNCHANGED <<transcript_df, diarization_df, heap, docs, target, files, attributed,
                   error>>

\* subtitles.to_file(path)
DocToFile ==
    /\ pc = "client"
    /\ heap' = to_file(heap, docs.subtitles)
    /\ files' = [files EXCEPT !.srt = written(heap, docs.subtitles)]
    /\ pc' = "written"
    /\ UNCHANGED <<inputs, run, timecode, seconds>>
    /\ UNCHANGED <<transcript_df, diarization_df, docs, target, idx, max_words_per_line,
                   attributed, error>>

DocNext ==
    \/ DocAddElement
    \/ DocJoin
    \/ JoinStep
    \/ DocJoinReturn
    \/ DocToFile

SpecDoc == DocInit /\ [][DocNext]_vars

\* the same client, with the interpreter going on: a call of
\* join_adjacent_elements that can run another iteration of its loop does so
SpecDocFair == DocInit /\ [][DocNext]_vars /\ WF_vars(JoinStep)

(***************************************************************************)
(* A client of models/Subtitles.py that chooses the times of its intervals *)
(***************************************************************************)
\* subtitles.add_element(SubtitleElement(start_ms, end_ms, "a", "A")): the interval
\* starts one ms before, with, or one ms after the interval added before it, and
\* lasts 0, 1 or 2 ms
DocAddTimed ==
    /\ pc = "client"
    /\ Len(attributed) < MaxElements
    /\ \E from \in {-1, 0, 1}, duration \in {0, 1, 2} :
          LET before == IF attributed = <<>> THEN 1
                        ELSE attributed[Len(attributed)].start_ms
              element == SubtitleElement(before + from, before + from + duration,
                                         <<"a">>, "A")
              added == add_element(heap, docs.subtitles, element)
          IN  /\ before + from >= 0
              /\ heap' = added.heap
              /\ docs' = [docs EXCEPT !.subtitles = added.doc]
              /\ attributed' = Append(attributed, interval(element))
    /\ UNCHANGED <<inputs, run, timecode, seconds>>
    /\ UNCHANGED <<pc, transcript_df, diarization_df, target, idx, max_words_per_line,
                   files, error>>

TimesNext ==
    \/ DocAddTimed
    \/ DocJoin
    \/ JoinStep
    \/ DocJoinReturn
    \/ DocToFile

SpecTimes == DocInit /\ [][TimesNext]_vars

(***************************************************************************)
(* subtitle.py: generate_diarized_subtitles on input files that may lack   *)
(* keys, hold null times, or hold diarization lines of any shape           *)
(***************************************************************************)
\* the i-th word of a transcript file: as Whisper writes it, without one of
\* its keys, or with null times
WordEntries(i) ==
    LET text == IF i = 1 THEN <<"a", ".">> ELSE <<" ", "b">>
        word(keys, numeric) ==
            [keys |-> keys, numeric |-> numeric, start |-> word_at(i, text).start,
             end |-> word_at(i, text).end, word |-> text]
    IN  { word({"start", "end", "word"}, TRUE), word({"start", "end", "word"}, FALSE),
          word({"end", "word"}, TRUE), word({"start", "word"}, TRUE),
          word({"start", "end"}, TRUE) }

WordLists ==
    { <<>> } \cup { <<w>> : w \in WordEntries(1) }
             \cup { <<w, v>> : w \in WordEntries(1), v \in WordEntries(2) }

SegmentEntries ==
    { [keys |-> keys, numeric |-> TRUE, words |-> words] :
        keys \in { {"start", "end", "text", "words"}, {"end", "text", "words"},
                   {"start", "text", "words"}, {"start", "end", "words"},
                   {"start", "end", "text"} },
        words \in WordLists }
    \cup { [keys |-> {"start", "end", "text", "words"}, numeric |-> FALSE, words |-> words] :
             words \in WordLists }

TranscriptFiles ==
    { [keys |-> {"segments"}, segments |-> <<segment>>] : segment \in SegmentEntries }
    \cup { [keys |-> {}, segments |-> <<>>] }

\* the lines of a diarization file, split on commas
DiarizationLines ==
    { << <<"0">>, <<"3">>, <<"A">> >>,
      << <<"1">>, <<"2">>, <<"B">> >>,
      << <<"0">>, <<"3">> >>,
      << <<"0">> >>,
      << <<"0">>, <<"3">>, <<"A">>, <<"x">> >>,
      << <<"x">>, <<"3">>, <<"A">> >>,
      << <<"0">>, <<"x">>, <<"A">> >>,
      << <<"s", "t", "a", "r", "t">>, <<"e", "n", "d">>,
         <<"s", "p", "e", "a", "k", "e", "r">> >> }

DiarizationFiles ==
    { <<line>> : line \in DiarizationLines }
    \cup { <<line, other>> : line \in DiarizationLines, other \in DiarizationLines }

ParseInit ==
    /\ pc = "start"
    /\ transcript_df = <<>>
    /\ diarization_df = <<>>
    /\ heap = <<>>
    /\ docs = [subtitles |-> Unbound, subtitles_srt |-> Unbound,
               subtitles_transcribeMe |-> Unbound]
    /\ target = "subtitles"
    /\ idx = 0
    /\ max_words_per_line = DefaultMaxWordsPerLine
    /\ files = [srt |-> NoFile, transcribeMe |-> NoFile]
    /\ attributed = <<>>
    /\ error = ""
    /\ inputs \in [transcript : TranscriptFiles, diarization : DiarizationFiles]
    /\ run = NoRun
    /\ timecode = NoTimecode
    /\ seconds = NoSeconds

\* the exception combine_transcript_diarization ends with on the two files: the
\* transcript is read first (merge_transcript_json), then the diarization
combine_error(files_read) ==
    IF process_whisper_transcript_error(files_read.transcript) # ""
    THEN process_whisper_transcript_error(files_read.transcript)
    ELSE IF DataFrame_raises(
                transcript_fields(process_whisper_transcript(files_read.transcript.segments)), 3)
    THEN "ValueError"
    ELSE get_diarization_df_error(files_read.diarization)

\* construct_diarised_subtitles, first call, on the files on disk
ReadInputs ==
    /\ pc = "start"
    /\ IF combine_error(inputs) # ""
       THEN /\ error' = combine_error(inputs)
            /\ pc' = "raised"
            /\ UNCHANGED <<transcript_df, diarization_df>>
       ELSE /\ transcript_df' = combine_transcript_diarization(
                                    process_whisper_transcript(inputs.transcript.segments),
                                    get_diarization_df(inputs.diarization))
            /\ diarization_df' = get_diarization_df(inputs.diarization)
            /\ pc' = "combined"
            /\ UNCHANGED error
    /\ UNCHANGED <<inputs, run, timecode, seconds>>
    /\ UNCHANGED <<heap, docs, target, idx, max_words_per_line, files, attributed>>

ParseNext ==
    \/ ReadInputs
    \/ ProcessCombined
    \/ ConstructSubtitles
    \/ CopySrt
    \/ JoinStep
    \/ WriteSrt
    \/ ReturnSrt
    \/ CopyTranscribeMe
    \/ SetDisplayMode
    \/ WriteTranscribeMe

SpecParse == ParseInit /\ [][ParseNext]_vars

(***************************************************************************)
(* whispernote.py (main, run_parallel) and whispernote/__init__.py         *)
(* (run_whispernote_parallel): one run.  run.args are the output paths the *)
(* caller gave (TRUE) or left out (FALSE); run.tasks is the state of the   *)
(* transcription and of the diarization job; run.outputs is the state of   *)
(* the file generate_diarized_subtitles will read for each: "unwritten"    *)
(* (no file, or an empty temporary file), "stale" (left by an earlier      *)
(* run), "partial" (being written) or "complete".                          *)
(***************************************************************************)
Tasks == {"transcription", "diarization"}

subtitle_vars == <<pc, transcript_df, diarization_df, heap, docs, target, idx,
                   max_words_per_line, files, attributed, error, inputs, timecode,
                   seconds>>

RunInit ==
    /\ pc = "start"
    /\ transcript_df = <<>>
    /\ diarization_df = <<>>
    /\ heap = <<>>
    /\ docs = [subtitles |-> Unbound, subtitles_srt |-> Unbound,
               subtitles_transcribeMe |-> Unbound]
    /\ target = "subtitles"
    /\ idx = 0
    /\ max_words_per_line = DefaultMaxWordsPerLine
    /\ files = [srt |-> NoFile, transcribeMe |-> NoFile]
    /\ attributed = <<>>
    /\ error = ""
    /\ inputs = NoInputs
    /\ timecode = NoTimecode
    /\ seconds = NoSeconds
    /\ \E mode \in {"sequential", "parallel", "package"},
          args \in [transcription : BOOLEAN, diarization : BOOLEAN, srt : BOOLEAN],
          outputs \in [Tasks -> {"unwritten", "stale"}] :
          /\ \A t \in Tasks : ~args[t] => outputs[t] = "unwritten"
          /\ run = [mode |-> mode, at |-> "start", args |-> args,
                    tasks |-> [t \in Tasks |-> "none"], outputs |-> outputs,
                    subtitles |-> "not_started"]

\* the job has ended, with or without an error, or was never started
finished(status) == status \in {"none", "completed", "failed"}

\* as_completed has yielded one future
any_finished(tasks) == \E t \in Tasks : finished(tasks[t])

\* run_parallel: the loop over as_completed(futures.values()) and the exit of the
\* executor's with block have waited for every submitted future
all_finished(tasks) == \A t \in Tasks : finished(tasks[t])

\* run_whispernote_parallel: process.join() has returned for every process
all_joined(tasks) == \A t \in Tasks : finished(tasks[t])

\* main without --parallel: transcript_output, diarization_output are the caller's
\* paths or, when srt_output is given, temporary files
wanted(t) == run.args[t] \/ run.args.srt

\* main: no output was asked for
nothing_asked ==
    /\ run.mode \in {"sequential", "parallel"}
    /\ ~run.args.transcription /\ ~run.args.diarization /\ ~run.args.srt

\* main logs that no output was specified and exits
ExitNoOutput ==
    /\ run.at = "start"
    /\ nothing_asked
    /\ run' = [run EXCEPT !.at = "done"]
    /\ UNCHANGED subtitle_vars

\* main without --parallel calls transcribe.transcribe / diarize.diarize itself
SeqCall ==
    /\ ~nothing_asked
    /\ run.mode = "sequential"
    /\ run.at \in {"start", "transcribed"}
    /\ LET t == IF run.at = "start" THEN "transcription" ELSE "diarization"
           after == IF run.at = "start" THEN "transcribed" ELSE "ready"
       IN  IF wanted(t)
           THEN run' = [run EXCEPT !.tasks[t] = "running", !.at = t]
           ELSE run' = [run EXCEPT !.at = after]
    /\ UNCHANGED subtitle_vars

\* the call returns, or its exception ends main
SeqReturn ==
    /\ run.mode = "sequential"
    /\ run.at \in Tasks
    /\ finished(run.tasks[run.at])
    /\ run' = [run EXCEPT !.at = IF run.tasks[run.at] = "failed" THEN "fatal"
                                 ELSE IF run.at = "transcription" THEN "transcribed"
                                 ELSE "ready"]
    /\ UNCHANGED subtitle_vars

\* run_parallel: executor.submit(utils.execute_commands, ...) if the caller gave the
\* output path; run_whispernote_parallel: Process(...).start() likewise
Submit ==
    /\ ~nothing_asked
    /\ run.mode \in {"parallel", "package"}
    /\ run.at \in {"start", "transcription_submitted"}
    /\ LET t == IF run.at = "start" THEN "transcription" ELSE "diarization"
           after == IF run.at = "start" THEN "transcription_submitted" ELSE "waiting"
       IN  run' = [run EXCEPT !.tasks[t] = IF run.args[t] THEN "running" ELSE "none",
                              !.at = after]
    /\ UNCHANGED subtitle_vars

\* run_parallel returns: the futures' exceptions are never looked at
AsCompleted ==
    /\ run.mode = "parallel"
    /\ run.at = "waiting"
    /\ all_finished(run.tasks)
    /\ run' = [run EXCEPT !.at = "ready"]
    /\ UNCHANGED subtitle_vars

\* run_whispernote_parallel: the joins return: the exit codes are never looked at
JoinProcesses ==
    /\ run.mode = "package"
    /\ run.at = "waiting"
    /\ all_joined(run.tasks)
    /\ run' = [run EXCEPT !.at = "ready"]
    /\ UNCHANGED subtitle_vars

\* transcribe.write_output / diarize.write_output opens the output file
TaskWrite ==
    /\ \E t \in Tasks :
          /\ run.tasks[t] = "running"
          /\ run' = [run EXCEPT !.tasks[t] = "writing", !.outputs[t] = "partial"]
    /\ UNCHANGED subtitle_vars

\* the output file is written and closed, the job ends
TaskComplete ==
    /\ \E t \in Tasks :
          /\ run.tasks[t] = "writing"
          /\ run' = [run EXCEPT !.tasks[t] = "completed", !.outputs[t] = "complete"]
    /\ UNCHANGED subtitle_vars

\* the job fails: the subprocess exits non-zero (execute_commands: sys.exit(1) in
\* the worker thread), the child process dies, or the call raises
TaskFail ==
    /\ \E t \in Tasks :
          /\ run.tasks[t] \in {"running", "writing"}
          /\ run' = [run EXCEPT !.tasks[t] = "failed"]
    /\ UNCHANGED subtitle_vars

\* if srt_output: subtitle.generate_diarized_subtitles(...) is called
StartSubtitles ==
    /\ run.at = "ready"
    /\ run' = IF run.args.srt
              THEN [run EXCEPT !.subtitles = "started", !.at = "subtitles"]
              ELSE [run EXCEPT !.at = "done"]
    /\ UNCHANGED subtitle_vars

\* generate_diarized_subtitles reads the two files: it writes the srt file, or
\* raises on a file that is not there or not whole
EndSubtitles ==
    /\ run.at = "subtitles"
    /\ run' = IF \A t \in Tasks : run.outputs[t] \in {"stale", "complete"}
              THEN [run EXCEPT !.subtitles = "written", !.at = "done"]
              ELSE [run EXCEPT !.subtitles = "raised", !.at = "fatal"]
    /\ UNCHANGED subtitle_vars

RunNext ==
    \/ ExitNoOutput
    \/ SeqCall
    \/ SeqReturn
    \/ Submit
    \/ AsCompleted
    \/ JoinProcesses
    \/ TaskWrite
    \/ TaskComplete
    \/ TaskFail
    \/ StartSubtitles
    \/ EndSubtitles

SpecRun == RunInit /\ [][RunNext]_vars

(***************************************************************************)
(* models/SubtitleElement.py: calls of ms_to_HMSms                         *)
(***************************************************************************)
\* times in ms: hours, minutes, seconds and milliseconds at both ends of their
\* ranges and at the changes of their number of digits, below and at 100 hours
TimecodeInputs ==
    { ((h * 60 + m) * 60 + sec) * 1000 + mil :
        h \in {0, 1, 9, 10, 99, 100}, m \in {0, 1, 59}, sec \in {0, 1, 59},
        mil \in {0, 1, 9, 10, 99, 100, 999} }

TimecodeInit ==
    /\ pc = "start"
    /\ transcript_df = <<>>
    /\ diarization_df = <<>>
    /\ heap = <<>>
    /\ docs = [subtitles |-> Unbound, subtitles_srt |-> Unbound,
               subtitles_transcribeMe |-> Unbound]
    /\ target = "subtitles"
    /\ idx = 0
    /\ max_words_per_line = DefaultMaxWordsPerLine
    /\ files = [srt |-> NoFile, transcribeMe |-> NoFile]
    /\ attributed = <<>>
    /\ error = ""
    /\ inputs = NoInputs
    /\ run = NoRun
    /\ timecode = NoTimecode
    /\ seconds = NoSeconds

\* SubtitleElement.ms_to_HMSms(ms, delim): "," in srt_string, "." in transcript_string
FormatTimecode ==
    /\ \E ms \in TimecodeInputs, delim \in {",", "."} :
          timecode' = [ms |-> ms, delim |-> delim, text |-> ms_to_HMSms(ms, delim)]
    /\ UNCHANGED <<pc, transcript_df, diarization_df, heap, docs, target, idx,
                   max_words_per_line, files, attributed, error, inputs, run, seconds>>

TimecodeNext == FormatTimecode

SpecTimecode == TimecodeInit /\ [][TimecodeNext]_vars

(***************************************************************************)
(* The conversions from seconds to milliseconds: of the times of a word    *)
(* in process_whisper_transcript, and of the times of a speaker turn in    *)
(* diarize.write_output.  Times are given in microseconds.                 *)
(***************************************************************************)
\* times of words and turns: 0 s, 0.0004 s, 0.009 s, 0.030968 s, 0.5 s, 1.001 s,
\* 1.2 s, 1.2349 s, 2 s, 4.02 s
SecondsInputs == {0, 400, 9000, 30968, 500000, 1001000, 1200000, 1234900, 2000000, 4020000}

SecondsInit ==
    /\ pc = "start"
    /\ transcript_df = <<>>
    /\ diarization_df = <<>>
    /\ heap = <<>>
    /\ docs = [subtitles |-> Unbound, subtitles_srt |-> Unbound,
               subtitles_transcribeMe |-> Unbound]
    /\ target = "subtitles"
    /\ idx = 0
    /\ max_words_per_line = DefaultMaxWordsPerLine
    /\ files = [srt |-> NoFile, transcribeMe |-> NoFile]
    /\ attributed = <<>>
    /\ error = ""
    /\ inputs = NoInputs
    /\ run = NoRun
    /\ timecode = NoTimecode
    /\ seconds = NoSeconds

\* start_ms = int(start * 1000); end_ms = int(end * 1000)
convert(by, start, end) ==
    [by |-> by, start |-> start, end |-> end, start_ms |-> to_ms(start), end_ms |-> to_ms(end)]

\* process_whisper_transcript: one pass of the loop over the words of a segment
ProcessWord ==
    /\ \E start \in SecondsInputs, end \in SecondsInputs :
          seconds' = convert("process_whisper_transcript", start, end)
    /\ UNCHANGED <<pc, transcript_df, diarization_df, heap, docs, target, idx,
                   max_words_per_line, files, attributed, error, inputs, run, timecode>>

\* diarize.write_output: one pass of the loop over the tracks of the diarization
WriteTurn ==
    /\ \E start \in SecondsInputs, end \in SecondsInputs :
          seconds' = convert("write_output", start, end)
    /\ UNCHANGED <<pc, transcript_df, diarization_df, heap, docs, target, idx,
                   max_words_per_line, files, attributed, error, inputs, run, timecode>>

SecondsNext == ProcessWord \/ WriteTurn

SpecSeconds == SecondsInit /\ [][SecondsNext]_vars

(***************************************************************************)
(* Properties                                                              *)
(***************************************************************************)
\* overlap(T, D) = max(0, min(T.end, D.end) - max(T.start, D.start))
overlap(T, D) ==
    LET lo == IF T.start > D.start THEN T.start ELSE D.start
        hi == IF T.end < D.end THEN T.end ELSE D.end
    IN  IF hi > lo THEN hi - lo ELSE 0

\* the overlap of T with the turns of one speaker, summed over the timeline
RECURSIVE total_overlap(_, _, _)
total_overlap(T, speaker, lines) ==
    IF lines = <<>> THEN 0
    ELSE (IF Head(lines).speaker = speaker THEN overlap(T, Head(lines)) ELSE 0)
         + total_overlap(T, speaker, Tail(lines))

speakers_of(lines) == {lines[i].speaker : i \in 1..Len(lines)}

\* the speakers of the timeline whose summed overlap with T is maximal and positive
best_speakers(T, lines) ==
    {sp \in speakers_of(lines) :
        /\ total_overlap(T, sp, lines) > 0
        /\ \A other \in speakers_of(lines) :
              total_overlap(T, sp, lines) >= total_overlap(T, other, lines)}

\* the first turn of the timeline spoken by one of the given speakers
first_in_order(lines, sps) ==
    lines[Min({i \in 1..Len(lines) : lines[i].speaker \in sps})].speaker

\* C1: after attribution (combine, then the fill pass) every transcript interval
\* that overlaps the timeline carries a speaker of maximal summed overlap
C1_MaxOverlapSpeaker ==
    pc = "processed" =>
        \A i \in 1..Len(transcript_df) :
            best_speakers(transcript_df[i], diarization_df) # {} =>
                transcript_df[i].speaker \in best_speakers(transcript_df[i], diarization_df)

\* C2: when several speakers have the same maximal summed overlap with a transcript
\* interval, the one that comes first in the diarization order is assigned
C2_FirstInOrderWins ==
    pc = "processed" =>
        \A i \in 1..Len(transcript_df) :
            Cardinality(best_speakers(transcript_df[i], diarization_df)) >= 2 =>
                transcript_df[i].speaker =
                    first_in_order(diarization_df,
                                   best_speakers(transcript_df[i], diarization_df))

\* the turns are pairwise non-overlapping and their speakers distinct
disjoint_turns(lines) ==
    \A i, j \in 1..Len(lines) :
        i # j => /\ overlap(lines[i], lines[j]) = 0
                 /\ lines[i].speaker # lines[j].speaker

within(T, D) == D.start <= T.start /\ T.end <= D.end

\* C3: on a timeline of pairwise non-overlapping turns with distinct speakers, a
\* transcript interval lying within one turn carries that turn's speaker, both
\* before and after the fill-forward / fill-backward pass
C3_WithinOneTurn ==
    (pc \in {"combined", "processed"} /\ disjoint_turns(diarization_df)) =>
        \A i \in 1..Len(transcript_df), d \in 1..Len(diarization_df) :
            within(transcript_df[i], diarization_df[d]) =>
                transcript_df[i].speaker = diarization_df[d].speaker

\* C3 witness: two disjoint turns, one interval within a turn and one within none,
\* after the fill pass gave the second one a speaker
C3_Witness ==
    /\ pc = "processed"
    /\ Len(diarization_df) = 2
    /\ disjoint_turns(diarization_df)
    /\ \E i, j \in 1..Len(transcript_df) :
          /\ \E d \in 1..2 : within(transcript_df[i], diarization_df[d])
          /\ \A d \in 1..2 : ~within(transcript_df[j], diarization_df[d])
          /\ transcript_df[j].speaker \in Speakers

\* C4: after attribution no interval is left without a speaker
C4_SpeakerNeverNull ==
    pc = "processed" =>
        \A i \in 1..Len(transcript_df) : transcript_df[i].speaker \in Speakers

\* the lines of the document join_adjacent_elements is running on
lines_of(doc) == [k \in 1..Len(doc.elements) |-> heap[doc.elements[k]]]

\* join_adjacent_elements has left its loop and not yet returned
join_finished == pc = "join" /\ ~in_loop

\* C5: when join_adjacent_elements has run, no line holds more than
\* max_words_per_line words (text split on single spaces)
C5_WordLimit ==
    join_finished =>
        \A k \in 1..Len(docs[target].elements) :
            split_len(lines_of(docs[target])[k].text) <= max_words_per_line

\* the index rows of a written srt file: the first of every five rows
index_rows(rows) == [k \in 1..(Len(rows) \div 5) |-> rows[5 * (k - 1) + 1]]

\* C6: after join_adjacent_elements the indices of the lines are 0, 1, ..., n-1 in
\* document order, and these are the indices written to the srt file
C6_ContiguousIndices ==
    /\ join_finished =>
          \A k \in 1..Len(docs[target].elements) : lines_of(docs[target])[k].index = k - 1
    /\ pc = "written" =>
          \A k \in 1..Len(index_rows(files.srt.rows)) :
              index_rows(files.srt.rows)[k] = str_int(k - 1)

\* the three merge conditions, read off the current line and the next interval
same_speaker(line, next) == line.speaker = next.speaker
unterminated(line) == \A c \in stop_characters : line.text[Len(line.text)] # c
below_limit(line) == split_len(line.text) < max_words_per_line

\* the iteration merged the next interval into the current line
merged_step ==
    /\ Len(docs'[target].elements) = Len(docs[target].elements) - 1
    /\ idx' = idx
    /\ pc' = "join"

\* the iteration closed the current line: the document is as it was, idx moved on
closed_step ==
    /\ docs' = docs
    /\ heap' = heap
    /\ idx' = idx + 1
    /\ pc' = "join"

\* C7: an iteration of join_adjacent_elements on a line with text merges the next
\* interval into it exactly if the speakers are the same, the line does not end
\* with a sentence terminator and the line has fewer than max_words_per_line
\* words; otherwise it closes the line and moves to the next interval
C7_MergeIffAllThree ==
    [][ (pc = "join" /\ in_loop /\ lines_of(docs[target])[idx + 1].text # <<>>) =>
          LET line == lines_of(docs[target])[idx + 1]
              next == lines_of(docs[target])[idx + 2]
              all_three == same_speaker(line, next) /\ unterminated(line) /\ below_limit(line)
          IN  /\ all_three => merged_step
              /\ ~all_three => closed_step ]_vars

\* C7 witness: a line was merged from two intervals, and the next line was not
\* merged into it although it has the same speaker
C7_Witness ==
    /\ join_finished
    /\ \E k \in 1..(Len(docs[target].elements) - 1) :
          /\ lines_of(docs[target])[k + 1].index > lines_of(docs[target])[k].index + 1
          /\ lines_of(docs[target])[k].speaker = lines_of(docs[target])[k + 1].speaker

\* the intervals a line was made of: from its own index up to the next line's
span(doc, k) ==
    LET from == lines_of(doc)[k].index + 1
        to == IF k < Len(doc.elements) THEN lines_of(doc)[k + 1].index ELSE Len(attributed)
    IN  from..to

\* C8: every line is made of consecutive intervals that all carry the line's speaker
C8_OneSpeakerPerLine ==
    \A k \in 1..Len(docs.subtitles.elements) :
        /\ span(docs.subtitles, k) # {}
        /\ \A i \in span(docs.subtitles, k) :
              attributed[i].speaker = lines_of(docs.subtitles)[k].speaker

\* C8 witness: after a join, a line made of two intervals is followed by a line of
\* another speaker, though it is unterminated and below the word limit
C8_Witness ==
    /\ join_finished
    /\ \E k \in 1..(Len(docs.subtitles.elements) - 1) :
          LET line == lines_of(docs.subtitles)[k]
          IN  /\ Cardinality(span(docs.subtitles, k)) >= 2
              /\ line.speaker # lines_of(docs.subtitles)[k + 1].speaker
              /\ unterminated(line)
              /\ below_limit(line)

\* ceil(n / m)
ceil_div(n, m) == (n + m - 1) \div m

\* C9: a transcript that is one unterminated run of n words comes out of the srt
\* pass as ceil(n / max_words_per_line) lines, each of max_words_per_line words
\* except possibly the last
C9_SplitAtWordLimit ==
    (pc = "srt_written" /\ Len(attributed) = 1 /\ attributed[1].speaker \in Speakers
        /\ attributed[1].text # <<>>
        /\ attributed[1].text[Len(attributed[1].text)] \notin stop_characters) =>
        LET n == split_len(attributed[1].text)
            out == lines_of(docs.subtitles_srt)
        IN  /\ Len(out) = ceil_div(n, max_words_per_line)
            /\ \A k \in 1..(Len(out) - 1) : split_len(out[k].text) = max_words_per_line
            /\ \A k \in 1..Len(out) : split_len(out[k].text) <= max_words_per_line

refs(doc) == {doc.elements[k] : k \in 1..Len(doc.elements)}

\* the source document is as construct_diarised_subtitles built it
source_intact ==
    /\ Len(docs.subtitles.elements) = Len(attributed)
    /\ \A k \in 1..Len(attributed) :
          lines_of(docs.subtitles)[k] =
              [index |-> k - 1, start_ms |-> attributed[k].start_ms,
               end_ms |-> attributed[k].end_ms, text |-> attributed[k].text,
               speaker |-> attributed[k].speaker, display_mode |-> "srt"]

\* C10: each pass runs on a copy of its own: from construction on, the source
\* document keeps its elements with every field unchanged, no element object is
\* shared between the three documents, and once the srt file is written the srt
\* copy stays what was written (setting the transcribeMe display mode included)
C10_IsolatedCopies ==
    pc \in {"constructed", "join", "srt_written", "transcribeMe_copied", "done"} =>
        /\ source_intact
        /\ refs(docs.subtitles) \cap refs(docs.subtitles_srt) = {}
        /\ refs(docs.subtitles) \cap refs(docs.subtitles_transcribeMe) = {}
        /\ refs(docs.subtitles_srt) \cap refs(docs.subtitles_transcribeMe) = {}
        /\ files.srt.written =>
              /\ str_subtitles(heap, docs.subtitles_srt) = files.srt.rows
              /\ \A k \in 1..Len(docs.subtitles_srt.elements) :
                    lines_of(docs.subtitles_srt)[k].display_mode = "srt"

\* C10 witness: both passes are over, on a document of two lines or more
C10_Witness ==
    /\ pc = "done"
    /\ files.transcribeMe.written
    /\ Len(docs.subtitles.elements) >= 2
    /\ \A k \in 1..Len(docs.subtitles_transcribeMe.elements) :
          lines_of(docs.subtitles_transcribeMe)[k].display_mode = "transcribeMe"

\* the transcript had no word: nothing was read into the frame and no interval
\* was handed to the document
empty_transcript == pc # "start" /\ transcript_df = <<>> /\ attributed = <<>>

\* C11: a transcript without words goes through generate_diarized_subtitles
\* without an error, and the documents it writes have no line
C11_EmptyTranscript ==
    empty_transcript =>
        /\ error = ""
        /\ files.srt.written => files.srt.rows = <<>>
        /\ files.transcribeMe.written => files.transcribeMe.rows = <<>>

texts_of(lines) == [k \in 1..Len(lines) |-> lines[k].text]

\* every interval handed to the document has text
nonempty_texts == \A k \in 1..Len(attributed) : attributed[k].text # <<>>

\* C12: join_adjacent_elements loses no interval: at every moment the texts of
\* the document's lines, joined by single spaces, are the texts of the intervals
\* handed to it, joined by single spaces (nothing for the empty document), the
\* last interval's text ends the last line, and no error is raised
C12_NoIntervalLost ==
    nonempty_texts =>
        /\ error = ""
        /\ join(texts_of(lines_of(docs.subtitles))) = join(texts_of(attributed))
        /\ attributed # <<>> =>
              LET last == lines_of(docs.subtitles)[Len(docs.subtitles.elements)].text
                  text == attributed[Len(attributed)].text
              IN  /\ Len(last) >= Len(text)
                  /\ SubSeq(last, Len(last) - Len(text) + 1, Len(last)) = text

\* C12 witness: the loop is over on three intervals with text, two of them merged
\* into one line, the last one without a sentence terminator
C12_Witness ==
    /\ join_finished
    /\ nonempty_texts
    /\ Len(attributed) = 3
    /\ Len(docs.subtitles.elements) = 2
    /\ unterminated(attributed[3])

\* C12 witness of the empty sequence: join_adjacent_elements ran on no interval
C12_EmptyWitness == join_finished /\ attributed = <<>> /\ docs.subtitles.elements = <<>>

\* a segment or a word lacks one of "words", "start", "end", or holds a start or
\* end that is not a number
malformed_segment(segment) ==
    \/ ~({"start", "end", "words"} \subseteq segment.keys)
    \/ ~segment.numeric
    \/ \E i \in 1..Len(segment.words) :
          \/ ~({"start", "end"} \subseteq segment.words[i].keys)
          \/ ~segment.words[i].numeric

malformed_transcript(transcript) ==
    \/ "segments" \notin transcript.keys
    \/ \E i \in 1..Len(transcript.segments) : malformed_segment(transcript.segments[i])

\* a line after the header has not exactly three fields, or its start or end is
\* not an integer
malformed_diarization(lines) ==
    \E i \in 1..Len(diarization_data(lines)) :
        LET line == diarization_data(lines)[i]
        IN  Len(line) # 3 \/ ~is_int(line[1]) \/ ~is_int(line[2])

\* C13: when the transcript lacks a required field or holds a malformed one, or
\* a diarization line has not exactly three fields or a non-integer start or
\* end, generate_diarized_subtitles ends with an error as soon as it has read
\* the files, and writes neither the srt nor the transcribeMe file
C13_ParseErrorNoOutput ==
    (malformed_transcript(inputs.transcript) \/ malformed_diarization(inputs.diarization)) =>
        /\ pc # "start" => error # ""
        /\ ~files.srt.written
        /\ ~files.transcribeMe.written

\* C14: an interval whose end_ms is not after its start_ms, handed to the
\* document, ends the run with an error: it is never in a document that is
\* being built, joined or written
C14_InvalidIntervalRejected ==
    (\E k \in 1..Len(attributed) : attributed[k].end_ms <= attributed[k].start_ms) =>
        error # ""

\* the intervals handed to the document are ordered by start_ms and each ends
\* after it starts
ordered_valid ==
    /\ \A k \in 1..Len(attributed) : attributed[k].end_ms > attributed[k].start_ms
    /\ \A k \in 1..(Len(attributed) - 1) :
          attributed[k].start_ms <= attributed[k + 1].start_ms

\* C15: on intervals ordered by start_ms that each end after they start, every
\* line of the document ends after it starts, in every state before, during
\* and after join_adjacent_elements
C15_LinesEndAfterStart ==
    ordered_valid =>
        \A k \in 1..Len(docs.subtitles.elements) :
            lines_of(docs.subtitles)[k].end_ms > lines_of(docs.subtitles)[k].start_ms

\* C15 witness: the loop is over and a line has taken an interval nested in it,
\* so that it ends earlier than the interval it started as
C15_Witness ==
    /\ join_finished
    /\ ordered_valid
    /\ \E k \in 1..Len(docs.subtitles.elements) :
          LET line == lines_of(docs.subtitles)[k]
          IN  line.end_ms < attributed[line.index + 1].end_ms

\* C16: generate_diarized_subtitles does not stop on a word of no text
\* (text[-1] raises IndexError on an empty text), and no line of a document it
\* has written has empty text
C16_NoEmptyLine ==
    /\ error # "IndexError"
    /\ files.srt.written =>
          \A k \in 1..Len(docs.subtitles_srt.elements) :
              strip(lines_of(docs.subtitles_srt)[k].text) # <<>>
    /\ files.transcribeMe.written =>
          \A k \in 1..Len(docs.subtitles_transcribeMe.elements) :
              strip(lines_of(docs.subtitles_transcribeMe)[k].text) # <<>>

\* C17: when an iteration of join_adjacent_elements merges, on intervals with
\* text, the current line's text becomes its old text, one space and the incoming
\* interval's text, its end_ms becomes the incoming interval's end_ms, the
\* incoming interval leaves the list, and the line's start_ms and speaker, the
\* other lines and their order stay as they were
C17_MergeChangesTextAndEnd ==
    [][(pc = "join" /\ merged_step /\ nonempty_texts) =>
        LET elements == docs[target].elements
            ref == elements[idx + 1]
            next_ref == elements[idx + 2]
        IN  /\ heap'[ref].text = heap[ref].text \o <<" ">> \o heap[next_ref].text
            /\ heap'[ref].end_ms = heap[next_ref].end_ms
            /\ heap'[ref].start_ms = heap[ref].start_ms
            /\ heap'[ref].speaker = heap[ref].speaker
            /\ docs'[target].elements =
                  SubSeq(elements, 1, idx + 1) \o SubSeq(elements, idx + 3, Len(elements))
            /\ \A r \in DOMAIN heap : r # ref => heap'[r] = heap[r]]_vars

\* C17 witness: the loop is over on three intervals with text; the first line
\* is the first interval, the second line has taken the third interval
C17_Witness ==
    /\ join_finished
    /\ nonempty_texts
    /\ Len(attributed) = 3
    /\ Len(docs.subtitles.elements) = 2
    /\ lines_of(docs.subtitles)[1].end_ms = attributed[1].end_ms
    /\ lines_of(docs.subtitles)[2].start_ms = attributed[2].start_ms
    /\ lines_of(docs.subtitles)[2].end_ms = attributed[3].end_ms

C19_FailureIsFatal ==
    (\E t \in Tasks : run.tasks[t] = "failed") => run.subtitles = "not_started"

\* C20: for 0 <= ms < 360000000 and either delimiter, ms_to_HMSms(ms, delim) is
\* HH:MM:SS<delim>mmm with two digits of hours, minutes and seconds between 00
\* and 59 and three digits of milliseconds equal to ms mod 1000, and read back
\* as ((HH * 60 + MM) * 60 + SS) * 1000 + mmm it gives ms
C20_TimecodeRoundTrip ==
    (timecode.text # <<>> /\ timecode.ms < 360000000) =>
        LET t == timecode.text
            HH == SubSeq(t, 1, 2)
            MM == SubSeq(t, 4, 5)
            SS == SubSeq(t, 7, 8)
            mmm == SubSeq(t, 10, 12)
        IN  /\ Len(t) = 12
            /\ t[3] = ":" /\ t[6] = ":" /\ t[9] = timecode.delim
            /\ is_int(HH) /\ is_int(MM) /\ is_int(SS) /\ is_int(mmm)
            /\ int(MM) <= 59 /\ int(SS) <= 59
            /\ int(mmm) = timecode.ms % 1000
            /\ ((int(HH) * 60 + int(MM)) * 60 + int(SS)) * 1000 + int(mmm) = timecode.ms

\* C20 witness: the last millisecond before 100 hours, with the srt delimiter
C20_Witness ==
    /\ timecode.ms = 359999999
    /\ timecode.delim = ","
    /\ timecode.text = <<"9", "9", ":", "5", "9", ":", "5", "9", ",", "9", "9", "9">>

\* the time a timecode HH:MM:SS<delim>mmm stands for, in ms
timecode_ms(t) ==
    ((int(SubSeq(t, 1, 2)) * 60 + int(SubSeq(t, 4, 5))) * 60 + int(SubSeq(t, 7, 8))) * 1000
    + int(SubSeq(t, 10, 12))

\* a row HH:MM:SS,mmm --> HH:MM:SS,mmm of the times from and to
srt_times_row(row, from, to) ==
    /\ Len(row) = 29
    /\ SubSeq(row, 13, 17) = <<" ", "-", "-", ">", " ">>
    /\ row[3] = ":" /\ row[6] = ":" /\ row[9] = ","
    /\ row[20] = ":" /\ row[23] = ":" /\ row[26] = ","
    /\ \A i \in (1..29) \ {3, 6, 9, 13, 14, 15, 16, 17, 20, 23, 26} : is_digit(row[i])
    /\ timecode_ms(SubSeq(row, 1, 12)) = from
    /\ timecode_ms(SubSeq(row, 18, 29)) = to

\* C21: the srt file generate_diarized_subtitles writes holds, for each line of
\* the document in order, four rows (the line's index, the times of start_ms and
\* end_ms as HH:MM:SS,mmm --> HH:MM:SS,mmm, the speaker in brackets, the trimmed
\* text) and then one blank row
C21_SrtRows ==
    files.srt.written =>
        LET rows == files.srt.rows
            lines == lines_of(docs.subtitles_srt)
        IN  /\ Len(rows) = 5 * Len(lines)
            /\ \A k \in 1..Len(lines) :
                  /\ rows[5 * k - 4] = str_int(lines[k].index)
                  /\ srt_times_row(rows[5 * k - 3], lines[k].start_ms, lines[k].end_ms)
                  /\ rows[5 * k - 2] = <<"[">> \o str_speaker(lines[k].speaker) \o <<"]">>
                  /\ rows[5 * k - 1] = strip(lines[k].text)
                  /\ rows[5 * k] = <<>>

\* C21 witness: three words ending a sentence, said by A from 0 to 3 ms, are
\* written as the single entry 0 / 00:00:00,000 --> 00:00:00,003 / [A] / a a b.
C21_Witness ==
    /\ files.srt.written
    /\ files.srt.rows =
          << <<"0">>,
             <<"0", "0", ":", "0", "0", ":", "0", "0", ",", "0", "0", "0",
               " ", "-", "-", ">", " ",
               "0", "0", ":", "0", "0", ":", "0", "0", ",", "0", "0", "3">>,
             <<"[", "A", "]">>,
             <<"a", " ", "a", " ", "b", ".">>,
             <<>> >>

\* a row <speaker> HH:MM:SS.mmm <text> of a line
transcript_row(row, line) ==
    LET speaker == str_speaker(line.speaker)
        n == Len(speaker)
    IN  /\ Len(row) = n + 14 + Len(strip(line.text))
        /\ SubSeq(row, 1, n) = speaker
        /\ row[n + 1] = " "
        /\ row[n + 4] = ":" /\ row[n + 7] = ":" /\ row[n + 10] = "."
        /\ \A i \in {2, 3, 5, 6, 8, 9, 11, 12, 13} : is_digit(row[n + i])
        /\ timecode_ms(SubSeq(row, n + 2, n + 13)) = line.start_ms
        /\ row[n + 14] = " "
        /\ SubSeq(row, n + 15, Len(row)) = strip(line.text)

\* C22: the transcribeMe file holds exactly one row per line of the document,
\* <speaker> HH:MM:SS.mmm <text> with the line's start time, and no other row
C22_TranscriptRows ==
    files.transcribeMe.written =>
        LET rows == files.transcribeMe.rows
            lines == lines_of(docs.subtitles_transcribeMe)
        IN  /\ Len(rows) = Len(lines)
            /\ \A k \in 1..Len(lines) : transcript_row(rows[k], lines[k])

\* the first field of the first line of the diarization file is the token start
has_header == inputs.diarization[1][1] = <<"s", "t", "a", "r", "t">>

\* the transcript file is read without an exception
transcript_read ==
    /\ process_whisper_transcript_error(inputs.transcript) = ""
    /\ process_whisper_transcript(inputs.transcript.segments) # <<>>

\* C23: get_diarization_df drops the first line exactly if its first field is
\* the token start: the frame it returns holds the lines after a header, or all
\* lines when there is no header, in file order; a first line that is neither a
\* header nor an interval is not skipped but raises; a file of only a header
\* is read without an exception
C23_HeaderDropped ==
    LET lines == inputs.diarization
        kept == IF has_header THEN SubSeq(lines, 2, Len(lines)) ELSE lines
    IN  /\ pc = "combined" =>
              /\ Len(diarization_df) = Len(kept)
              /\ \A i \in 1..Len(kept) :
                    /\ diarization_df[i].start = int(kept[i][1])
                    /\ diarization_df[i].end = int(kept[i][2])
                    /\ Len(kept[i]) = 3 => <<diarization_df[i].speaker>> = kept[i][3]
        /\ (pc # "start" /\ ~has_header /\ ~is_int(lines[1][1])) => error # ""
        /\ (pc # "start" /\ has_header /\ Len(lines) = 1 /\ transcript_read) => error = ""

\* C23 witness: a header and one interval were read: the frame holds the interval
C23_Witness ==
    /\ pc = "combined"
    /\ has_header
    /\ Len(inputs.diarization) = 2
    /\ diarization_df = <<[start |-> 0, end |-> 3, speaker |-> "A"]>>

\* C23 witness of the file of only a header: the frame is empty, the run goes on
C23_HeaderOnlyWitness ==
    /\ has_header
    /\ Len(inputs.diarization) = 1
    /\ files.srt.written

\* C23 witness of a file without header: its first line is the first interval
C23_NoHeaderWitness ==
    /\ pc = "combined"
    /\ ~has_header
    /\ Len(inputs.diarization) = 1
    /\ diarization_df = <<[start |-> 1, end |-> 2, speaker |-> "B"]>>

\* C24: every time in seconds becomes the whole number of milliseconds below
\* it, floor(seconds * 1000), in process_whisper_transcript and in
\* diarize.write_output alike (1.2349 s becomes 1234 ms)
C24_Truncated ==
    seconds.by # "none" =>
        /\ seconds.start_ms = seconds.start \div 1000
        /\ seconds.end_ms = seconds.end \div 1000

\* the example of the claim is converted as it says
C24_Example ==
    (seconds.by # "none" /\ seconds.start = 1234900) => seconds.start_ms = 1234

\* C25: in generate_diarized_subtitles join_adjacent_elements never merges:
\* every iteration of its loop closes the current line, because every line but
\* the last ends with a sentence terminator; so the srt file holds one entry
\* per sentence group, the same entries for every max_words_per_line
C25_JoinNeverMerges ==
    [][ /\ (pc = "join" /\ in_loop) => closed_step
        /\ files'.srt.written =>
              /\ Len(docs'.subtitles_srt.elements) = Len(attributed')
              /\ \A k \in 1..Len(attributed') :
                    interval(heap'[docs'.subtitles_srt.elements[k]]) = attributed'[k]
              /\ files'.srt.rows = written(heap', docs'.subtitles).rows ]_vars

\* the srt pass is over two sentence groups of one speaker, the first of them
\* with fewer words than max_words_per_line
C25_Witness ==
    /\ pc = "srt_written"
    /\ Len(attributed) >= 2
    /\ attributed[1].speaker = attributed[2].speaker
    /\ attributed[1].speaker \in Speakers
    /\ split_len(attributed[1].text) < max_words_per_line
    /\ Len(docs.subtitles_srt.elements) = Len(attributed)

\* subtitle generation has been called in a run of main
subtitles_called(mode) == run.mode = mode /\ run.subtitles # "not_started"

\* C26: when main is run with --srt-output, transcription and diarization have
\* both been executed by the time generate_diarized_subtitles is called, with
\* --parallel as without it, so it never reads a file that no job was asked to write
C26_BothExecutedBeforeSubtitles ==
    (subtitles_called("sequential") \/ subtitles_called("parallel")) =>
        \A t \in Tasks : run.tasks[t] # "none"

\* without --parallel the claim holds
C26_Sequential ==
    subtitles_called("sequential") =>
        \A t \in Tasks : run.tasks[t] = "completed" /\ run.outputs[t] = "complete"

\* with --parallel a job runs exactly if its own output was asked for
C26_Parallel ==
    subtitles_called("parallel") => \A t \in Tasks : (run.tasks[t] # "none") = run.args[t]

\* C27: join_adjacent_elements is idempotent on intervals that all have text:
\* when a call has left its loop, a second call with the same
\* max_words_per_line raises nothing and leaves every element and the list of
\* the document as they are
C27_JoinIdempotent ==
    (join_finished /\ nonempty_texts) =>
        LET again == join_adjacent_elements(heap, docs[target], max_words_per_line)
        IN  /\ again.error = ""
            /\ again.heap = heap
            /\ again.doc = docs[target]

\* a call that merged two intervals of three has left its loop with two lines
\* of one speaker
C27_Witness ==
    /\ join_finished
    /\ nonempty_texts
    /\ Len(attributed) = 3
    /\ Len(docs[target].elements) = 2
    /\ lines_of(docs[target])[1].speaker = lines_of(docs[target])[2].speaker

\* the iterations the loop of join_adjacent_elements has yet to run
remaining(doc, i) == Len(doc.elements) - 1 - i

\* C28: join_adjacent_elements terminates on intervals that all have text: every
\* iteration of its loop either removes one element or moves idx on by one, so
\* that one iteration less remains, never raising; and a call that has begun
\* leaves its loop, with idx at the last element (at once on a document that is
\* empty or has one element)
C28_JoinTerminates ==
    /\ [][ (pc = "join" /\ in_loop /\ nonempty_texts) =>
              /\ merged_step \/ closed_step
              /\ remaining(docs'[target], idx') = remaining(docs[target], idx) - 1 ]_vars
    /\ (pc = "join" /\ nonempty_texts) ~>
          (join_finished /\ (docs[target].elements = <<>> \/ remaining(docs[target], idx) = 0))

\* the loop has ended on three intervals after two merges, idx still 0
C28_Witness ==
    /\ join_finished
    /\ nonempty_texts
    /\ Len(attributed) = 3
    /\ Len(docs[target].elements) = 1
    /\ idx = 0

\* the loop has ended on three intervals without a merge, idx at the last
C28_ClosedWitness ==
    /\ join_finished
    /\ nonempty_texts
    /\ Len(docs[target].elements) = 3
    /\ idx = 2

\* a call on the empty document ends at once
C28_EmptyWitness == join_finished /\ docs[target].elements = <<>>

====
